---- MODULE Spec2Model ----
(***************************************************************************)
(* Ride booking context (RideBookingProvider: reducer, requestRide,        *)
(* cancelRide, resetBooking) and the ride simulator of RideTrackingScreen  *)
(* (driver position interval, arrival effect, boarding timeout, reset      *)
(* effect).                                                                *)
(*                                                                         *)
(* Geometry.  Coordinates are points of one straight line, measured in     *)
(* step lengths: one step length is the distance the driver covers in one  *)
(* interval (30 km/h * 2 s / 3600 = 1/60 km), so the 0.05 km arrival       *)
(* threshold is 3 step lengths.  calculateDistance on that line is the     *)
(* absolute difference.                                                    *)
(*                                                                         *)
(* React.  A component function closes over the state of its last render.  *)
(* `state` and `driverLocation` are the latest values of the reducer and   *)
(* of the useState cell; `rendered` is what the closures of the last       *)
(* commit see.  Render is one commit: the cleanups of the effects whose    *)
(* dependencies changed, then the effects in declaration order.            *)
(*                                                                         *)
(* Time.  The model has no clock: which of the pending callbacks (the      *)
(* render task, the interval, a timeout, the continuation of an await)     *)
(* runs next is a free choice.  Timeouts of equal delay run in the order   *)
(* they were started.  User events (taps) are handled between commits,     *)
(* and the render a tap schedules is committed before the next callback.   *)
(***************************************************************************)
EXTENDS Integers, Sequences, FiniteSets, TLC

\* ---------------------------------------------------------------- bounds
MaxRides == 2
MaxPendingRequests == 1
MaxPendingCancels == 2
MaxPendingRoutes == 1
\* how many times updateDriverLocation is called in one run of the driver
\* tracking
MaxLocationUpdates == 7
\* how many findDriver calls can be waiting for findNearbyDriver
MaxPendingFinds == 1
\* how many reducer actions in a row are applied to a booking state
MaxReducerSteps == 2
\* how many times in a row moveTowardTarget is applied
MaxMoveSteps == 14
\* Distance, in step lengths, between the initial driver position and the
\* pickup.  The code offsets latitude and longitude by 0.01 degree each
\* (about 94 step lengths at the equator); the run of identical approach
\* ticks is shortened here.
InitialOffset == 5

\* ------------------------------------------------------ optional values
None == <<>>
Some(x) == <<x>>
IsSome(o) == o # <<>>
Get(o) == o[1]

\* ------------------------------------------------------------- domains
PickupChoices == {0, 2}
DestinationChoices == {4}
RideTypeChoices == {"economy"}
PaymentChoices == {"card-1"}
RideIds == 1..MaxRides

ErrLocations == "Both pickup and destination locations are required"
ErrRideType == "Please select a ride type"
ErrPayment == "Please select a payment method"
ErrInvalidRide == "Invalid ride ID"

\* ----------------------------------------------------------- geo-math
Abs(x) == IF x < 0 THEN -x ELSE x

\* calculateDistance, on the line, in step lengths
calculateDistance(a, b) == Abs(a - b)

\* 0.05 km in step lengths
ArrivalThreshold == 3
\* driverSpeedKmh * updateIntervalSeconds / 3600, in step lengths
DistanceToMove == 1

\* (mutant) moveTowardTarget without the test for an overshoot
moveTowardTarget_noOvershootTest(current, target, distanceToMove) ==
  LET distance == calculateDistance(current, target) IN
  IF distance < ArrivalThreshold THEN target
  ELSE IF target > current THEN current + distanceToMove
  ELSE current - distanceToMove

\* moveTowardTarget: the returned position (the .distance field is derived)
moveTowardTarget(current, target, distanceToMove) ==
  LET distance == calculateDistance(current, target) IN
  IF distance < ArrivalThreshold THEN target
  ELSE IF distanceToMove >= distance THEN target
  ELSE IF target > current THEN current + distanceToMove
  ELSE current - distanceToMove

\* (mutant) the remaining distance reported without the step taken off
moveTowardTargetDistance_beforeStep(current, target, distanceToMove) ==
  LET distance == calculateDistance(current, target) IN
  IF distance < ArrivalThreshold THEN 0
  ELSE IF distanceToMove >= distance THEN 0
  ELSE distance

\* moveTowardTarget: the .distance field of the result
moveTowardTargetDistance(current, target, distanceToMove) ==
  LET distance == calculateDistance(current, target) IN
  IF distance < ArrivalThreshold THEN 0
  ELSE IF distanceToMove >= distance THEN 0
  ELSE distance - distanceToMove

\* ------------------------------------------------------------- pricing
\* Money is counted in thousandths of the currency unit (5.0 is 5000), a
\* price multiplier and the surge factor in tenths (1.3 is 13), a distance in
\* step lengths (1/60 km) and a duration in seconds (1/60 min), so that every
\* intermediate value of calculatePrice is a whole number of
\* 1/PriceDenominator thousandths.  The arithmetic is exact; the binary
\* floating point of the program can differ from it only at a tie of the
\* final rounding.
PriceDenominator == 60 * 10 * 10

initialPriceFactors ==
  [ basePrice |-> 2500,
    perKmRate |-> 1250,
    perMinuteRate |-> 350,
    minimumFare |-> 5000,
    surgePricing |-> 10 ]

mockRideTypes ==
  [ economy |-> [id |-> "economy", priceMultiplier |-> 10],
    comfort |-> [id |-> "comfort", priceMultiplier |-> 13],
    premium |-> [id |-> "premium", priceMultiplier |-> 18],
    xl |-> [id |-> "xl", priceMultiplier |-> 15] ]

\* the ids of mockRideTypes and of mockPaymentMethods, in their order
mockRideTypeIds == << "economy", "comfort", "premium", "xl" >>
mockPaymentMethods == << "card-1", "card-2", "paypal-1", "apple-pay-1" >>

Max(a, b) == IF a >= b THEN a ELSE b

\* (mutant) a rounding that drops the fraction
MathRound_truncating(n, d) == n \div d
\* Math.round of the fraction n / d (d > 0): the nearest integer, a tie upward
MathRound(n, d) == (2 * n + d) \div (2 * d)

\* (mutant) calculatePrice without the minimum fare
calculatePrice_noMinimum(distance, duration, rideType, factors) ==
  LET distancePrice == distance * factors.perKmRate
      durationPrice == duration * factors.perMinuteRate
      subtotal == 60 * factors.basePrice + distancePrice + durationPrice
      withMultiplier == subtotal * rideType.priceMultiplier
      withSurge == withMultiplier * factors.surgePricing
  IN 10 * MathRound(withSurge, 10 * PriceDenominator)

\* calculatePrice; the result is in thousandths (a multiple of 10)
calculatePrice(distance, duration, rideType, factors) ==
  LET distancePrice == distance * factors.perKmRate
      durationPrice == duration * factors.perMinuteRate
      subtotal == 60 * factors.basePrice + distancePrice + durationPrice
      withMultiplier == subtotal * rideType.priceMultiplier
      withSurge == withMultiplier * factors.surgePricing
      finalPrice == Max(withSurge, factors.minimumFare * PriceDenominator)
  IN 10 * MathRound(finalPrice, 10 * PriceDenominator)

\* ------------------------------------------------------------- statuses
StatusRank(s) ==
  CASE s = "requested" -> 1
    [] s = "accepted" -> 2
    [] s = "arriving" -> 3
    [] s = "in_progress" -> 4
    [] s = "completed" -> 5
    [] s = "cancelled" -> 6
    [] OTHER -> 0

\* ------------------------------------------------------------- reducer
\* priceEstimates is None for the empty record {}, otherwise Some of the
\* estimate of every available ride type
initialState ==
  [ pickupLocation |-> None,
    destinationLocation |-> None,
    routeDistance |-> None,
    routeDuration |-> None,
    routeData |-> None,
    availableRideTypes |-> << >>,
    selectedRideType |-> None,
    priceEstimates |-> None,
    priceFactors |-> initialPriceFactors,
    paymentMethods |-> << >>,
    selectedPaymentMethod |-> None,
    currentRide |-> None,
    rideHistory |-> <<>>,
    isLoadingRoute |-> FALSE,
    isLoadingPrices |-> FALSE,
    isRequestingRide |-> FALSE,
    error |-> None ]

\* (mutant) the reducer adding a ride at the end of the history
rideBookingReducer_historyAtEnd(st, type, payload) ==
  CASE type = "SET_PICKUP_LOCATION" -> [st EXCEPT !.pickupLocation = payload]
    [] type = "SET_DESTINATION_LOCATION" -> [st EXCEPT !.destinationLocation = payload]
    [] type = "SET_ROUTE_DATA" -> [st EXCEPT !.routeDistance = Some(payload.distance),
                                            !.routeDuration = Some(payload.duration),
                                            !.routeData = payload.routeData]
    [] type = "SET_AVAILABLE_RIDE_TYPES" -> [st EXCEPT !.availableRideTypes = payload]
    [] type = "SELECT_RIDE_TYPE" -> [st EXCEPT !.selectedRideType = payload]
    [] type = "SET_PRICE_ESTIMATES" -> [st EXCEPT !.priceEstimates = Some(payload)]
    [] type = "SET_PAYMENT_METHODS" -> [st EXCEPT !.paymentMethods = payload]
    [] type = "SELECT_PAYMENT_METHOD" -> [st EXCEPT !.selectedPaymentMethod = payload]
    [] type = "SET_CURRENT_RIDE" -> [st EXCEPT !.currentRide = payload]
    [] type = "ADD_TO_RIDE_HISTORY" -> [st EXCEPT !.rideHistory = st.rideHistory \o <<payload>>]
    [] type = "SET_LOADING_ROUTE" -> [st EXCEPT !.isLoadingRoute = payload]
    [] type = "SET_LOADING_PRICES" -> [st EXCEPT !.isLoadingPrices = payload]
    [] type = "SET_REQUESTING_RIDE" -> [st EXCEPT !.isRequestingRide = payload]
    [] type = "SET_ERROR" -> [st EXCEPT !.error = payload]
    [] type = "RESET_BOOKING" -> [initialState EXCEPT !.paymentMethods = st.paymentMethods,
                                                      !.rideHistory = st.rideHistory]
    [] OTHER -> st

\* (mutant) the reducer whose reset also forgets the payment methods
rideBookingReducer_resetPaymentMethods(st, type, payload) ==
  CASE type = "SET_PICKUP_LOCATION" -> [st EXCEPT !.pickupLocation = payload]
    [] type = "SET_DESTINATION_LOCATION" -> [st EXCEPT !.destinationLocation = payload]
    [] type = "SET_ROUTE_DATA" -> [st EXCEPT !.routeDistance = Some(payload.distance),
                                            !.routeDuration = Some(payload.duration),
                                            !.routeData = payload.routeData]
    [] type = "SET_AVAILABLE_RIDE_TYPES" -> [st EXCEPT !.availableRideTypes = payload]
    [] type = "SELECT_RIDE_TYPE" -> [st EXCEPT !.selectedRideType = payload]
    [] type = "SET_PRICE_ESTIMATES" -> [st EXCEPT !.priceEstimates = Some(payload)]
    [] type = "SET_PAYMENT_METHODS" -> [st EXCEPT !.paymentMethods = payload]
    [] type = "SELECT_PAYMENT_METHOD" -> [st EXCEPT !.selectedPaymentMethod = payload]
    [] type = "SET_CURRENT_RIDE" -> [st EXCEPT !.currentRide = payload]
    [] type = "ADD_TO_RIDE_HISTORY" -> [st EXCEPT !.rideHistory = <<payload>> \o st.rideHistory]
    [] type = "SET_LOADING_ROUTE" -> [st EXCEPT !.isLoadingRoute = payload]
    [] type = "SET_LOADING_PRICES" -> [st EXCEPT !.isLoadingPrices = payload]
    [] type = "SET_REQUESTING_RIDE" -> [st EXCEPT !.isRequestingRide = payload]
    [] type = "SET_ERROR" -> [st EXCEPT !.error = payload]
    [] type = "RESET_BOOKING" -> [initialState EXCEPT !.rideHistory = st.rideHistory]
    [] OTHER -> st

rideBookingReducer(st, type, payload) ==
  CASE type = "SET_PICKUP_LOCATION" -> [st EXCEPT !.pickupLocation = payload]
    [] type = "SET_DESTINATION_LOCATION" -> [st EXCEPT !.destinationLocation = payload]
    [] type = "SET_ROUTE_DATA" -> [st EXCEPT !.routeDistance = Some(payload.distance),
                                            !.routeDuration = Some(payload.duration),
                                            !.routeData = payload.routeData]
    [] type = "SET_AVAILABLE_RIDE_TYPES" -> [st EXCEPT !.availableRideTypes = payload]
    [] type = "SELECT_RIDE_TYPE" -> [st EXCEPT !.selectedRideType = payload]
    [] type = "SET_PRICE_ESTIMATES" -> [st EXCEPT !.priceEstimates = Some(payload)]
    [] type = "SET_PAYMENT_METHODS" -> [st EXCEPT !.paymentMethods = payload]
    [] type = "SELECT_PAYMENT_METHOD" -> [st EXCEPT !.selectedPaymentMethod = payload]
    [] type = "SET_CURRENT_RIDE" -> [st EXCEPT !.currentRide = payload]
    [] type = "ADD_TO_RIDE_HISTORY" -> [st EXCEPT !.rideHistory = <<payload>> \o st.rideHistory]
    [] type = "SET_LOADING_ROUTE" -> [st EXCEPT !.isLoadingRoute = payload]
    [] type = "SET_LOADING_PRICES" -> [st EXCEPT !.isLoadingPrices = payload]
    [] type = "SET_REQUESTING_RIDE" -> [st EXCEPT !.isRequestingRide = payload]
    [] type = "SET_ERROR" -> [st EXCEPT !.error = payload]
    [] type = "RESET_BOOKING" -> [initialState EXCEPT !.paymentMethods = st.paymentMethods,
                                                      !.rideHistory = st.rideHistory]
    [] OTHER -> st

VARIABLES
  state,                    \* latest reducer state (RideBookingState)
  driverLocation,           \* latest value of the driverLocation useState cell
  rendered,                 \* state and driverLocation of the last commit
  rideDirty,                \* currentRide is another object than at the last commit
  locDirty,                 \* driverLocation is another object than at the last commit
  intervalActive,           \* the interval effect holds an interval (and a cleanup)
  arrivalAtPickupRef,
  arrivalAtDestinationRef,
  inProgressTimeoutRef,     \* None, or Some(updatedRide) of the armed boarding timeout
  pendingRequests,          \* requestRide calls waiting in their 2 s await
  pendingCancels,           \* cancelRide calls waiting in their 1 s await
  pendingRoutes,            \* calculateRoute calls waiting in their 1 s await
  nextRideId,               \* the clock behind `ride-${Date.now()}`
  returned,                 \* the value the last completed call returned
  trace,                    \* observer: what has been dispatched for which ride
  calc                      \* the utility function under study: its inputs and result

vars == << state, driverLocation, rendered, rideDirty, locDirty, intervalActive,
           arrivalAtPickupRef, arrivalAtDestinationRef, inProgressTimeoutRef,
           pendingRequests, pendingCancels, pendingRoutes, nextRideId, returned,
           trace, calc >>

\* ------------------------------------------------------------ observer
SimStatuses == {"arriving", "in_progress", "completed"}
AllStatuses == {"requested", "accepted", "arriving", "in_progress", "completed", "cancelled"}

initialTrace ==
  [ dispatched |-> [id \in RideIds |-> [s \in AllStatuses |-> 0]],
    cancelRequested |-> {},  \* ids for which cancelRide passed its id check
    cancelDone |-> {} ]      \* ids for which cancelRide dispatched the cancellation

Bump(n) == IF n < 2 THEN n + 1 ELSE n

\* record a SET_CURRENT_RIDE dispatched by the simulator
NoteSimulated(tr, ride) ==
  [tr EXCEPT !.dispatched[ride.id][ride.status] = Bump(@)]

\* -------------------------------------------------------------- helpers
CurrentRideId(st) == IF IsSome(st.currentRide) THEN Get(st.currentRide).id ELSE 0

\* whether currentRide, after SET_CURRENT_RIDE payload, is another object than
\* the one the last commit saw (null is identical to null)
RideObjectChanged(payload) == IsSome(payload) \/ IsSome(rendered.state.currentRide)

renderPending ==
  \/ rendered.state # state
  \/ rendered.driverLocation # driverLocation
  \/ rideDirty
  \/ locDirty

simVars == << driverLocation, locDirty, intervalActive, arrivalAtPickupRef,
             arrivalAtDestinationRef, inProgressTimeoutRef >>

\* --------------------------------------------------- booking form actions
\* A dispatch from an event handler that touches neither currentRide nor
\* driverLocation: the commit that follows runs no effect of the tracking
\* screen, it only gives the closures the new state.
CommitForm(st) ==
  /\ state' = st
  /\ rendered' = [rendered EXCEPT !.state = st]
  /\ UNCHANGED << simVars, rideDirty >>

setPickupLocation(l) ==
  /\ ~renderPending
  /\ CommitForm(rideBookingReducer(state, "SET_PICKUP_LOCATION", l))
  /\ UNCHANGED << pendingRequests, pendingCancels, nextRideId, returned, trace >>
  /\ UNCHANGED << pendingRoutes, calc >>

setDestinationLocation(l) ==
  /\ ~renderPending
  /\ CommitForm(rideBookingReducer(state, "SET_DESTINATION_LOCATION", l))
  /\ UNCHANGED << pendingRequests, pendingCancels, nextRideId, returned, trace >>
  /\ UNCHANGED << pendingRoutes, calc >>

selectRideType(r) ==
  /\ ~renderPending
  /\ CommitForm(rideBookingReducer(state, "SELECT_RIDE_TYPE", r))
  /\ UNCHANGED << pendingRequests, pendingCancels, nextRideId, returned, trace >>
  /\ UNCHANGED << pendingRoutes, calc >>

selectPaymentMethod(p) ==
  /\ ~renderPending
  /\ CommitForm(rideBookingReducer(state, "SELECT_PAYMENT_METHOD", p))
  /\ UNCHANGED << pendingRequests, pendingCancels, nextRideId, returned, trace >>
  /\ UNCHANGED << pendingRoutes, calc >>

\* the OK button of the error alert
clearError ==
  /\ ~renderPending
  /\ IsSome(state.error)
  /\ CommitForm(rideBookingReducer(state, "SET_ERROR", None))
  /\ UNCHANGED << pendingRequests, pendingCancels, nextRideId, returned, trace >>
  /\ UNCHANGED << pendingRoutes, calc >>

resetBooking ==
  /\ ~renderPending
  /\ state' = rideBookingReducer(state, "RESET_BOOKING", None)
  /\ rideDirty' = RideObjectChanged(None)
  /\ UNCHANGED << simVars, rendered, pendingRequests, pendingCancels,
                  nextRideId, returned, trace >>
  /\ UNCHANGED << pendingRoutes, calc >>

\* --------------------------------------------------------- calculateRoute
\* calculatePriceEstimates: the estimate of every available ride type
priceEstimatesOf(st) ==
  [id \in {st.availableRideTypes[i] : i \in 1..Len(st.availableRideTypes)} |->
     calculatePrice(Get(st.routeDistance), Get(st.routeDuration),
                    mockRideTypes[id], st.priceFactors)]

\* the effect "Calculate price estimates when route or ride types change" of
\* the commit that shows st after prev: the state it leaves
priceEstimatesEffect(prev, st) ==
  IF /\ << st.routeDistance, st.routeDuration, st.availableRideTypes, st.priceFactors >>
          # << prev.routeDistance, prev.routeDuration, prev.availableRideTypes,
               prev.priceFactors >>
     /\ IsSome(st.routeDistance) /\ Get(st.routeDistance) # 0
     /\ IsSome(st.routeDuration) /\ Get(st.routeDuration) # 0
     /\ Len(st.availableRideTypes) > 0
  THEN LET loading == rideBookingReducer(st, "SET_LOADING_PRICES", TRUE)
           estimated == rideBookingReducer(loading, "SET_PRICE_ESTIMATES",
                                           priceEstimatesOf(st))
       IN rideBookingReducer(estimated, "SET_LOADING_PRICES", FALSE)
  ELSE st

\* the part of calculateRoute before its await
calculateRouteCall ==
  /\ ~renderPending
  /\ LET st == rendered.state IN
     IF ~IsSome(st.pickupLocation) \/ ~IsSome(st.destinationLocation)
     THEN /\ CommitForm(rideBookingReducer(state, "SET_ERROR", Some(ErrLocations)))
          /\ UNCHANGED pendingRoutes
     ELSE /\ Len(pendingRoutes) < MaxPendingRoutes
          /\ CommitForm(rideBookingReducer(state, "SET_LOADING_ROUTE", TRUE))
          /\ pendingRoutes' = Append(pendingRoutes,
                 [ pickup |-> Get(st.pickupLocation),
                   destination |-> Get(st.destinationLocation),
                   selectedRideType |-> st.selectedRideType,
                   availableRideTypes |-> st.availableRideTypes ])
  /\ UNCHANGED << pendingRequests, pendingCancels, nextRideId, returned, trace, calc >>

\* the part of calculateRoute after its await, with the commit that follows:
\* the straight-line distance, two minutes per km (in 1/60 min: 2 per step
\* length), the first ride type if the closure had none selected, and the
\* price estimates effect
calculateRouteResume ==
  /\ pendingRoutes # <<>>
  /\ ~renderPending
  /\ LET r == Head(pendingRoutes)
         distance == calculateDistance(r.pickup, r.destination)
         routeData == [distance |-> distance, duration |-> 2 * distance]
         s1 == rideBookingReducer(state, "SET_ROUTE_DATA",
                                  [distance |-> distance, duration |-> 2 * distance,
                                   routeData |-> Some(routeData)])
         s2 == IF ~IsSome(r.selectedRideType) /\ Len(r.availableRideTypes) > 0
               THEN rideBookingReducer(s1, "SELECT_RIDE_TYPE",
                                       Some(r.availableRideTypes[1]))
               ELSE s1
         s3 == rideBookingReducer(s2, "SET_LOADING_ROUTE", FALSE)
     IN CommitForm(priceEstimatesEffect(state, s3))
  /\ pendingRoutes' = Tail(pendingRoutes)
  /\ UNCHANGED << pendingRequests, pendingCancels, nextRideId, returned, trace, calc >>

\* ------------------------------------------------------------ requestRide
\* (mutant) the validation without its payment method test
requestRideValidationError_noPayment(st) ==
  IF ~IsSome(st.pickupLocation) \/ ~IsSome(st.destinationLocation) THEN Some(ErrLocations)
  ELSE IF ~IsSome(st.selectedRideType) THEN Some(ErrRideType)
  ELSE None

requestRideValidationError(st) ==
  IF ~IsSome(st.pickupLocation) \/ ~IsSome(st.destinationLocation) THEN Some(ErrLocations)
  ELSE IF ~IsSome(st.selectedRideType) THEN Some(ErrRideType)
  ELSE IF ~IsSome(st.selectedPaymentMethod) THEN Some(ErrPayment)
  ELSE None

\* state.priceEstimates[selectedRideType.id] || 0
priceEstimateOrZero(st) ==
  IF /\ IsSome(st.priceEstimates)
     /\ Get(st.selectedRideType) \in DOMAIN Get(st.priceEstimates)
  THEN Get(st.priceEstimates)[Get(st.selectedRideType)]
  ELSE 0

\* the part of requestRide before its await; `state` of the closure is the
\* state of the last render
requestRideCall ==
  /\ ~renderPending
  /\ LET st == rendered.state
         err == requestRideValidationError(st) IN
     IF IsSome(err)
     THEN /\ CommitForm(rideBookingReducer(state, "SET_ERROR", err))
          /\ returned' = [op |-> "requestRide", value |-> "null"]
          /\ UNCHANGED << pendingRequests, pendingCancels, nextRideId, trace >>
     ELSE /\ Len(pendingRequests) < MaxPendingRequests
          /\ nextRideId + Len(pendingRequests) <= MaxRides
          /\ CommitForm(rideBookingReducer(state, "SET_REQUESTING_RIDE", TRUE))
          /\ pendingRequests' = Append(pendingRequests,
                 [ pickup |-> Get(st.pickupLocation),
                   destination |-> Get(st.destinationLocation),
                   fare |-> priceEstimateOrZero(st),
                   rideType |-> Get(st.selectedRideType),
                   paymentMethod |-> st.selectedPaymentMethod ])
          /\ UNCHANGED << pendingCancels, nextRideId, returned, trace >>
  /\ UNCHANGED << pendingRoutes, calc >>

\* the part of requestRide after its await
requestRideResume ==
  /\ pendingRequests # <<>>
  /\ LET req == Head(pendingRequests)
         ride == [ id |-> nextRideId,
                   status |-> "requested",
                   pickup |-> req.pickup,
                   destination |-> req.destination,
                   fare |-> req.fare,
                   rideType |-> req.rideType,
                   paymentMethod |-> req.paymentMethod ]
         s1 == rideBookingReducer(state, "SET_CURRENT_RIDE", Some(ride))
     IN /\ state' = rideBookingReducer(s1, "SET_REQUESTING_RIDE", FALSE)
        /\ rideDirty' = RideObjectChanged(Some(ride))
  /\ returned' = [op |-> "requestRide", value |-> "ride"]
  /\ pendingRequests' = Tail(pendingRequests)
  /\ nextRideId' = nextRideId + 1
  /\ UNCHANGED << simVars, rendered, pendingCancels, trace >>
  /\ UNCHANGED << pendingRoutes, calc >>

\* ------------------------------------------------------------- cancelRide
\* (mutant) the id check without the comparison of the ids
cancelRideIdInvalid_nullOnly(st, rideId) ==
  ~IsSome(st.currentRide)

\* the id check of cancelRide
cancelRideIdInvalid(st, rideId) ==
  ~IsSome(st.currentRide) \/ Get(st.currentRide).id # rideId

\* the part of cancelRide before its await
cancelRideCall(rideId) ==
  /\ ~renderPending
  /\ LET st == rendered.state IN
     IF cancelRideIdInvalid(st, rideId)
     THEN /\ CommitForm(rideBookingReducer(state, "SET_ERROR", Some(ErrInvalidRide)))
          /\ returned' = [op |-> "cancelRide", value |-> "false"]
          /\ UNCHANGED << pendingRequests, pendingCancels, nextRideId, trace >>
     ELSE /\ Len(pendingCancels) < MaxPendingCancels
          /\ pendingCancels' = Append(pendingCancels, Get(st.currentRide))
          /\ trace' = [trace EXCEPT !.cancelRequested = @ \cup {rideId}]
          /\ UNCHANGED << state, simVars, rendered, rideDirty, pendingRequests,
                          nextRideId, returned >>
  /\ UNCHANGED << pendingRoutes, calc >>

\* RideTracker.handleCancelRide: the cancellation modal confirms with the id
\* of the ride the tracker shows
handleCancelRide ==
  /\ IsSome(rendered.state.currentRide)
  /\ cancelRideCall(Get(rendered.state.currentRide).id)

\* the part of cancelRide after its await; the ride is the currentRide of
\* the closure, not the one of the moment
cancelRideResume ==
  /\ pendingCancels # <<>>
  /\ LET cancelledRide == [Head(pendingCancels) EXCEPT !.status = "cancelled"]
         s1 == rideBookingReducer(state, "SET_CURRENT_RIDE", None)
     IN /\ state' = rideBookingReducer(s1, "ADD_TO_RIDE_HISTORY", cancelledRide)
        /\ rideDirty' = RideObjectChanged(None)
        /\ trace' = [trace EXCEPT !.cancelDone = @ \cup {cancelledRide.id}]
  /\ returned' = [op |-> "cancelRide", value |-> "true"]
  /\ pendingCancels' = Tail(pendingCancels)
  /\ UNCHANGED << simVars, rendered, pendingRequests, nextRideId >>
  /\ UNCHANGED << pendingRoutes, calc >>

\* -------------------------------------------------------------- simulator
\* the copies of the ride the simulator dispatches
\* (mutant) the arrival passing through accepted
arrivingRide_viaAccepted(ride) ==
  [ride EXCEPT !.status = IF @ = "requested" THEN "accepted" ELSE "arriving"]
arrivingRide(ride) == [ride EXCEPT !.status = "arriving"]
\* (mutant) the timeout callback writing the wrong status literal
inProgressRide_accepted(ride) == [ride EXCEPT !.status = "accepted"]
inProgressRide(ride) == [ride EXCEPT !.status = "in_progress"]
completedRide(ride) == [ride EXCEPT !.status = "completed"]

\* (mutant) getTargetLocation that keeps the pickup while in_progress
getTargetLocation_pickupOnly(ride) ==
  IF ride.status \in {"requested", "accepted", "arriving", "in_progress"}
  THEN Some(ride.pickup)
  ELSE None

\* getTargetLocation of the interval effect
getTargetLocation(ride) ==
  IF ride.status \in {"requested", "accepted", "arriving"} THEN Some(ride.pickup)
  ELSE IF ride.status = "in_progress" THEN Some(ride.destination)
  ELSE None

\* the updater the interval callback hands to setDriverLocation; `ride` is the
\* currentRide of the render that created the interval
nextDriverLocation(prev, ride, atPickup, atDestination) ==
  LET target == Get(getTargetLocation(ride))
      result == moveTowardTarget(prev, target, DistanceToMove)
  IN IF atPickup /\ ride.status = "arriving" THEN ride.pickup
     ELSE IF /\ ride.status \in {"requested", "accepted"}
             /\ ~atPickup
             /\ calculateDistance(result, ride.pickup) < ArrivalThreshold
          THEN ride.pickup
     ELSE IF /\ ride.status = "in_progress"
             /\ ~atDestination
             /\ calculateDistance(result, ride.destination) < ArrivalThreshold
          THEN ride.destination
     ELSE result

\* one run of the setInterval callback
Tick ==
  /\ intervalActive
  /\ ~locDirty
  /\ IsSome(driverLocation)
  /\ IsSome(rendered.state.currentRide)
  /\ driverLocation' = Some(nextDriverLocation(Get(driverLocation),
                                               Get(rendered.state.currentRide),
                                               arrivalAtPickupRef,
                                               arrivalAtDestinationRef))
  /\ locDirty' = TRUE
  /\ UNCHANGED << state, rendered, rideDirty, intervalActive, arrivalAtPickupRef,
                  arrivalAtDestinationRef, inProgressTimeoutRef, pendingRequests,
                  pendingCancels, nextRideId, returned, trace >>
  /\ UNCHANGED << pendingRoutes, calc >>

\* the setTimeout callback of the arrival effect
BoardingTimeout ==
  /\ IsSome(inProgressTimeoutRef)
  /\ LET ride == inProgressRide(Get(inProgressTimeoutRef))
     IN /\ state' = rideBookingReducer(state, "SET_CURRENT_RIDE", Some(ride))
        /\ rideDirty' = RideObjectChanged(Some(ride))
        /\ trace' = NoteSimulated(trace, ride)
  /\ inProgressTimeoutRef' = None
  /\ UNCHANGED << driverLocation, rendered, locDirty, intervalActive,
                  arrivalAtPickupRef, arrivalAtDestinationRef, pendingRequests,
                  pendingCancels, nextRideId, returned >>
  /\ UNCHANGED << pendingRoutes, calc >>

\* ---- the effects of RideTrackingScreen, as functions of the render's values

\* cleanup of the interval effect: clears the boarding timeout
intervalCleanup(timeout) == None

\* "Initialize driver location when ride starts": the new driverLocation
initDriverLocation(st, loc) ==
  IF ~IsSome(st.currentRide) THEN None
  ELSE IF ~IsSome(loc) THEN Some(Get(st.currentRide).pickup - InitialOffset)
  ELSE loc

\* (mutant) the interval effect without its test of the current ride
intervalCreated_withoutRide(st, loc) ==
  /\ IsSome(loc)
  /\ IsSome(st.currentRide) => IsSome(getTargetLocation(Get(st.currentRide)))

\* whether the interval effect creates an interval (and returns a cleanup)
intervalCreated(st, loc) ==
  /\ IsSome(st.currentRide)
  /\ IsSome(loc)
  /\ IsSome(getTargetLocation(Get(st.currentRide)))

\* (mutant) the arrival effect reading the driver position of the previous
\* render
arrivalBranch_preStepPosition(st, loc, atPickup, atDestination) ==
  IF ~IsSome(rendered.driverLocation) \/ ~IsSome(st.currentRide) THEN "none"
  ELSE LET ride == Get(st.currentRide) IN
       IF /\ ~atPickup
          /\ ride.status \in {"requested", "accepted"}
          /\ calculateDistance(Get(rendered.driverLocation), ride.pickup) < ArrivalThreshold
       THEN "pickup"
       ELSE IF /\ ~atDestination
               /\ ride.status = "in_progress"
               /\ calculateDistance(Get(rendered.driverLocation), ride.destination)
                    < ArrivalThreshold
       THEN "destination"
       ELSE "none"

\* (mutant) the arrival effect without the distance tests
arrivalBranch_noDistanceTest(st, loc, atPickup, atDestination) ==
  IF ~IsSome(loc) \/ ~IsSome(st.currentRide) THEN "none"
  ELSE LET ride == Get(st.currentRide) IN
       IF ~atPickup /\ ride.status \in {"requested", "accepted"}
       THEN "pickup"
       ELSE IF ~atDestination /\ ride.status = "in_progress"
       THEN "destination"
       ELSE "none"

\* (mutant) the arrival effect trusting the flags alone, without the status tests
arrivalBranch_flagsOnly(st, loc, atPickup, atDestination) ==
  IF ~IsSome(loc) \/ ~IsSome(st.currentRide) THEN "none"
  ELSE LET ride == Get(st.currentRide) IN
       IF /\ ~atPickup
          /\ calculateDistance(Get(loc), ride.pickup) < ArrivalThreshold
       THEN "pickup"
       ELSE IF /\ ~atDestination
               /\ calculateDistance(Get(loc), ride.destination) < ArrivalThreshold
       THEN "destination"
       ELSE "none"

\* the arrival effect: the branch it takes
arrivalBranch(st, loc, atPickup, atDestination) ==
  IF ~IsSome(loc) \/ ~IsSome(st.currentRide) THEN "none"
  ELSE LET ride == Get(st.currentRide) IN
       IF /\ ~atPickup
          /\ ride.status \in {"requested", "accepted"}
          /\ calculateDistance(Get(loc), ride.pickup) < ArrivalThreshold
       THEN "pickup"
       ELSE IF /\ ~atDestination
               /\ ride.status = "in_progress"
               /\ calculateDistance(Get(loc), ride.destination) < ArrivalThreshold
       THEN "destination"
       ELSE "none"

\* one commit of a render of RideTrackingScreen (and of the provider)
Render ==
  /\ renderPending
  /\ LET st == state
         loc == driverLocation
         idChanged == CurrentRideId(rendered.state) # CurrentRideId(st)
         depsChanged == rideDirty \/ locDirty
         \* cleanups first
         timeout1 == IF depsChanged /\ intervalActive
                     THEN intervalCleanup(inProgressTimeoutRef)
                     ELSE inProgressTimeoutRef
         \* init effect                      [currentRide?.id]
         loc1 == IF idChanged THEN initDriverLocation(st, loc) ELSE loc
         \* arrival effect                   [driverLocation, currentRide]
         branch == IF depsChanged
                   THEN arrivalBranch(st, loc, arrivalAtPickupRef, arrivalAtDestinationRef)
                   ELSE "none"
         updatedRide == arrivingRide(Get(st.currentRide))
         completed == completedRide(Get(st.currentRide))
     IN /\ rendered' = [state |-> st, driverLocation |-> loc]
        /\ driverLocation' = loc1
        /\ locDirty' = (loc1 # loc)
        \* interval effect                   [currentRide, driverLocation]
        /\ intervalActive' = IF depsChanged THEN intervalCreated(st, loc)
                                            ELSE intervalActive
        /\ state' = CASE branch = "pickup" ->
                            rideBookingReducer(st, "SET_CURRENT_RIDE", Some(updatedRide))
                       [] branch = "destination" ->
                            rideBookingReducer(st, "SET_CURRENT_RIDE", Some(completed))
                       [] OTHER -> st
        /\ rideDirty' = (branch # "none")
        /\ trace' = CASE branch = "pickup" -> NoteSimulated(trace, updatedRide)
                       [] branch = "destination" -> NoteSimulated(trace, completed)
                       [] OTHER -> trace
        \* reset effect                      [currentRide?.id]
        /\ arrivalAtPickupRef' = IF idChanged THEN FALSE
                                 ELSE (arrivalAtPickupRef \/ branch = "pickup")
        /\ arrivalAtDestinationRef' = IF idChanged THEN FALSE
                                      ELSE (arrivalAtDestinationRef \/ branch = "destination")
        /\ inProgressTimeoutRef' = IF idChanged THEN None
                                   ELSE IF branch = "pickup" THEN Some(updatedRide)
                                   ELSE timeout1
  /\ UNCHANGED << pendingRequests, pendingCancels, nextRideId, returned >>
  /\ UNCHANGED << pendingRoutes, calc >>

\* ---------------------------------------------------------- specifications
\* The booking form has been filled in; the rides are requested, simulated,
\* cancelled and replaced.
\* the effect "Load initial data" of the provider's first commit
loadInitialData(st) ==
  LET types == rideBookingReducer(st, "SET_AVAILABLE_RIDE_TYPES", mockRideTypeIds)
      methods == rideBookingReducer(types, "SET_PAYMENT_METHODS", mockPaymentMethods)
  IN rideBookingReducer(methods, "SELECT_PAYMENT_METHOD", Some(mockPaymentMethods[1]))

FormFilled ==
  \E p \in PickupChoices, d \in DestinationChoices :
    state = [loadInitialData(initialState) EXCEPT !.pickupLocation = Some(p),
                                 !.destinationLocation = Some(d),
                                 !.selectedRideType = Some("economy"),
                                 !.selectedPaymentMethod = Some("card-1")]

InitApp ==
  /\ driverLocation = None
  /\ rendered = [state |-> state, driverLocation |-> None]
  /\ rideDirty = FALSE
  /\ locDirty = FALSE
  /\ intervalActive = FALSE
  /\ arrivalAtPickupRef = FALSE
  /\ arrivalAtDestinationRef = FALSE
  /\ inProgressTimeoutRef = None
  /\ pendingRequests = <<>>
  /\ pendingCancels = <<>>
  /\ pendingRoutes = <<>>
  /\ nextRideId = 1
  /\ returned = [op |-> "none", value |-> "none"]
  /\ trace = initialTrace

InitRest == InitApp /\ calc = None

SimInit == FormFilled /\ InitRest

SimNext ==
  \/ \E l \in PickupChoices : setPickupLocation(Some(l))
  \/ requestRideCall
  \/ requestRideResume
  \/ handleCancelRide
  \/ cancelRideResume
  \/ Tick
  \/ BoardingTimeout
  \/ Render

Spec == SimInit /\ [][SimNext]_vars

\* The booking session from its construction (the provider has loaded the
\* catalogs and selected the default payment method): every operation of the
\* context, with every input, while the driver position is not yet sampled.
Init ==
  /\ state = loadInitialData(initialState)
  /\ InitRest

BookingNext ==
  \/ \E l \in {None} \cup {Some(x) : x \in PickupChoices} : setPickupLocation(l)
  \/ \E l \in {None} \cup {Some(x) : x \in DestinationChoices} : setDestinationLocation(l)
  \/ \E r \in {None} \cup {Some(x) : x \in RideTypeChoices} : selectRideType(r)
  \/ \E p \in {None} \cup {Some(x) : x \in PaymentChoices} : selectPaymentMethod(p)
  \/ clearError
  \/ resetBooking
  \/ requestRideCall
  \/ requestRideResume
  \/ \E id \in RideIds : cancelRideCall(id)
  \/ cancelRideResume
  \/ Render

BookingSpec == Init /\ [][BookingNext]_vars

\* The booking form from its construction up to the stored ride: locations,
\* ride type, route calculation and request, in any order.
FareLocationChoices == {0, 4}
FareRideTypeChoices == {"economy", "premium"}

FareNext ==
  \/ \E l \in FareLocationChoices : setPickupLocation(Some(l))
  \/ \E l \in FareLocationChoices : setDestinationLocation(Some(l))
  \/ \E r \in FareRideTypeChoices : selectRideType(Some(r))
  \/ calculateRouteCall
  \/ calculateRouteResume
  \/ requestRideCall
  \/ requestRideResume
  \/ Render

FareSpec == Init /\ [][FareNext]_vars

\* The callbacks the event loop owes a run: a scheduled render, an interval,
\* an armed timeout and the continuation of an await all run if they stay
\* pending.  The user owes nothing.
FairSpec ==
  /\ Spec
  /\ WF_vars(Render)
  /\ WF_vars(Tick)
  /\ WF_vars(BoardingTimeout)
  /\ WF_vars(requestRideResume)
  /\ WF_vars(cancelRideResume)

\* ---- the utility functions, each applied to inputs drawn at the start
appVars == << state, driverLocation, rendered, rideDirty, locDirty, intervalActive,
              arrivalAtPickupRef, arrivalAtDestinationRef, inProgressTimeoutRef,
              pendingRequests, pendingCancels, pendingRoutes, nextRideId,
              returned, trace >>

PriceDistances == {0, 30, 59, 60, 61, 300}
PriceDurations == {0, 45, 61, 900}
PriceMinimumFares == {0, 5000, 5004, 5006}
PriceSurges == {10, 15}

PriceInit ==
  /\ state = initialState
  /\ InitApp
  /\ \E d \in PriceDistances, t \in PriceDurations, r \in DOMAIN mockRideTypes,
        m \in PriceMinimumFares, g \in PriceSurges :
       calc = [ distance |-> d,
                duration |-> t,
                rideType |-> mockRideTypes[r],
                factors |-> [initialPriceFactors EXCEPT !.minimumFare = m,
                                                       !.surgePricing = g],
                out |-> None ]

applyCalculatePrice ==
  /\ calc.out = None
  /\ calc' = [calc EXCEPT !.out = Some(calculatePrice(calc.distance, calc.duration,
                                                     calc.rideType, calc.factors))]
  /\ UNCHANGED appVars

PriceNext == applyCalculatePrice

PriceSpec == PriceInit /\ [][PriceNext]_vars

\* moveTowardTarget applied again and again to its own result: speed and
\* interval enter through the distance of one step
MovePositions == 0..12
MoveDistances == {1, 2, 5}

MoveInit ==
  /\ state = initialState
  /\ InitApp
  /\ \E c \in MovePositions, t \in MovePositions, m \in MoveDistances :
       calc = [ start |-> c, current |-> c, target |-> t, distanceToMove |-> m,
                distance |-> calculateDistance(c, t), steps |-> 0 ]

applyMoveTowardTarget ==
  /\ calc.steps < MaxMoveSteps
  /\ calc' = [calc EXCEPT !.current = moveTowardTarget(calc.current, calc.target,
                                                       calc.distanceToMove),
                          !.distance = moveTowardTargetDistance(calc.current,
                                         calc.target, calc.distanceToMove),
                          !.steps = @ + 1]
  /\ UNCHANGED appVars

MoveNext == applyMoveTowardTarget

MoveSpec == MoveInit /\ [][MoveNext]_vars

\* ---- rideBookingApi: createRideRequest and the fetchRoute it awaits
\* What the Mapbox request can come to: the fetch rejects, or a response
\* arrives with a status and a body, whose routes are absent, empty or a list.
\* A route carries its distance (m), its duration (s) and its number of steps.
\* The distances are multiples of 50 m, which are whole step lengths.
ApiRoutes ==
  { None, Some(<< >>),
    Some(<< [distance |-> 1000, duration |-> 120, steps |-> 0] >>),
    Some(<< [distance |-> 50, duration |-> 1, steps |-> 1] >>),
    Some(<< [distance |-> 1950, duration |-> 77, steps |-> 1] >>),
    Some(<< [distance |-> 5000, duration |-> 900, steps |-> 2],
            [distance |-> 7000, duration |-> 800, steps |-> 3] >>) }

ApiResponses ==
  { [rejected |-> TRUE, ok |-> FALSE, routes |-> None] }
    \cup { [rejected |-> FALSE, ok |-> o, routes |-> r] : o \in BOOLEAN, r \in ApiRoutes }

Throw(message) == [kind |-> "throw", value |-> message]
Return(value) == [kind |-> "return", value |-> value]

\* (mutant) fetchRoute without the test of response.ok
fetchRouteAfterResponse_statusIgnored(response) ==
  IF response.rejected THEN Throw("fetch failed")
  ELSE IF ~IsSome(response.routes) \/ Len(Get(response.routes)) = 0
       THEN Throw("No routes found between the specified locations.")
  ELSE LET route == Get(response.routes)[1] IN
       Return([ distance |-> route.distance,
                duration |-> route.duration,
                steps |-> IF route.steps = 0 THEN 1 ELSE route.steps ])

\* fetchRoute from the settling of its fetch: what the call comes to
fetchRouteAfterResponse(response) ==
  IF response.rejected THEN Throw("fetch failed")
  ELSE IF ~response.ok THEN Throw("Failed to fetch route from Mapbox")
  ELSE IF ~IsSome(response.routes) \/ Len(Get(response.routes)) = 0
       THEN Throw("No routes found between the specified locations.")
  ELSE LET route == Get(response.routes)[1] IN
       Return([ distance |-> route.distance,
                duration |-> route.duration,
                steps |-> IF route.steps = 0 THEN 1 ELSE route.steps ])

\* the inputs are the request (whether its ride type and payment method ids
\* are known), the environment (whether the token is set) and the outcome of
\* the fetch; pc is the await the call stands at
ApiInit ==
  /\ state = initialState
  /\ InitApp
  /\ \E r \in {"economy", "premium", "unknown"}, p \in BOOLEAN, t \in BOOLEAN,
        resp \in ApiResponses :
       calc = [ rideTypeId |-> r, paymentMethodKnown |-> p, accessToken |-> t,
                response |-> resp, pc |-> "createRideRequest", fetches |-> 0,
                routeData |-> None, ride |-> None ]

\* createRideRequest up to its call of fetchRoute
createRideRequestCall ==
  /\ calc.pc = "createRideRequest"
  /\ IF calc.rideTypeId \notin DOMAIN mockRideTypes \/ ~calc.paymentMethodKnown
     THEN calc' = [calc EXCEPT !.pc = "done",
                               !.ride = Some(Throw("Invalid ride type or payment method"))]
     ELSE calc' = [calc EXCEPT !.pc = "fetchRoute"]
  /\ UNCHANGED appVars

\* fetchRoute up to its fetch
fetchRouteCall ==
  /\ calc.pc = "fetchRoute"
  /\ IF ~calc.accessToken
     THEN calc' = [calc EXCEPT !.pc = "afterFetchRoute",
                               !.routeData = Some(Throw("Mapbox token not configured."))]
     ELSE calc' = [calc EXCEPT !.pc = "fetch", !.fetches = @ + 1]
  /\ UNCHANGED appVars

\* fetchRoute after its fetch has settled
fetchRouteResume ==
  /\ calc.pc = "fetch"
  /\ calc' = [calc EXCEPT !.pc = "afterFetchRoute",
                          !.routeData = Some(fetchRouteAfterResponse(calc.response))]
  /\ UNCHANGED appVars

\* The fare of createRideRequest is computed from the distance in metres and
\* the duration in seconds: in thousandths the distance fare is 5/4 per metre
\* and the time fare 35/6 per second, so the subtotal is counted in twelfths
\* of a thousandth and, with the multiplier in tenths, the fare in
\* 1/ApiFareDenominator thousandths.
ApiFareDenominator == 12 * 10

\* (mutant) the minimum applied to the subtotal, before the multiplier
createRideRequestFare_minimumFirst(routeData, rideType) ==
  LET baseFare == 12 * 2500
      distanceFare == routeData.distance * 15
      timeFare == routeData.duration * 70
      subtotal == baseFare + distanceFare + timeFare
      fare == Max(subtotal, 12 * 5000) * rideType.priceMultiplier
  IN 10 * MathRound(fare, 10 * ApiFareDenominator)

\* "Calculate fare based on distance and duration", with the rounding of the
\* returned ride; the result is in thousandths
createRideRequestFare(routeData, rideType) ==
  LET baseFare == 12 * 2500
      distanceFare == routeData.distance * 15
      timeFare == routeData.duration * 70
      subtotal == baseFare + distanceFare + timeFare
      fare == Max(subtotal * rideType.priceMultiplier, 5000 * ApiFareDenominator)
  IN 10 * MathRound(fare, 10 * ApiFareDenominator)

\* createRideRequest after fetchRoute: a rejection passes through the await,
\* otherwise the ride is built with the fare of the route
createRideRequestResume ==
  /\ calc.pc = "afterFetchRoute"
  /\ LET routeData == Get(calc.routeData) IN
     IF routeData.kind = "throw"
     THEN calc' = [calc EXCEPT !.pc = "done", !.ride = Some(routeData)]
     ELSE calc' = [calc EXCEPT
            !.pc = "done",
            !.ride = Some(Return(
               [ status |-> "requested",
                 fare |-> createRideRequestFare(routeData.value,
                                                mockRideTypes[calc.rideTypeId]),
                 route |-> routeData.value ]))]
  /\ UNCHANGED appVars

ApiNext ==
  \/ createRideRequestCall
  \/ fetchRouteCall
  \/ fetchRouteResume
  \/ createRideRequestResume

ApiSpec == ApiInit /\ [][ApiNext]_vars

\* ---- interpolate
\* A coordinate is a pair << lon, lat >>; progress is counted in tenths.
\* The paths run along the grid lines, where the distance of getDistance is
\* the sum of the two differences, and their coordinates are multiples of
\* ProgressScale, so that every interpolated coordinate is a whole number.
ProgressScale == 10

\* the coordinate [NaN, NaN]
NaNPoint == << >>

getDistance(a, b) == Abs(a[1] - b[1]) + Abs(a[2] - b[2])

\* interpolatePoints with the progress num / den
interpolatePoints(a, b, num, den) ==
  IF den = 0 THEN NaNPoint
  ELSE << a[1] + ((b[1] - a[1]) * num) \div den,
          a[2] + ((b[2] - a[2]) * num) \div den >>

\* totalDistance: the sum of the distances of the segments from segment i on
RECURSIVE totalDistanceFrom(_, _)
totalDistanceFrom(coordinates, i) ==
  IF i >= Len(coordinates) THEN 0
  ELSE getDistance(coordinates[i], coordinates[i + 1])
         + totalDistanceFrom(coordinates, i + 1)

\* the second loop of interpolate from segment i on, currentDistance behind
\* it; targetDistance is target / ProgressScale
RECURSIVE interpolateFrom(_, _, _, _)
interpolateFrom(coordinates, i, currentDistance, target) ==
  IF i >= Len(coordinates) THEN coordinates[Len(coordinates)]
  ELSE LET distance == getDistance(coordinates[i], coordinates[i + 1]) IN
       IF ProgressScale * (currentDistance + distance) >= target
       THEN interpolatePoints(coordinates[i], coordinates[i + 1],
                              target - ProgressScale * currentDistance,
                              ProgressScale * distance)
       ELSE interpolateFrom(coordinates, i + 1, currentDistance + distance, target)

\* (mutant) interpolate without the two early returns
interpolate_unclamped(coordinates, progress) ==
  interpolateFrom(coordinates, 1, 0, totalDistanceFrom(coordinates, 1) * progress)

interpolate(coordinates, progress) ==
  IF progress <= 0 THEN coordinates[1]
  ELSE IF progress >= ProgressScale THEN coordinates[Len(coordinates)]
  ELSE interpolateFrom(coordinates, 1, 0, totalDistanceFrom(coordinates, 1) * progress)

InterpPoints == { <<0, 0>>, <<10, 0>>, <<10, 20>>, <<30, 20>> }
InterpProgress == {-10, -1, 0, 1, 5, 9, 10, 11, 25}
MaxPathLen == 3

\* the non-empty paths whose segments run along a grid line
InterpPaths ==
  { c \in UNION { [1..n -> InterpPoints] : n \in 1..MaxPathLen } :
      \A i \in 1..(Len(c) - 1) : c[i][1] = c[i + 1][1] \/ c[i][2] = c[i + 1][2] }

InterpInit ==
  /\ state = initialState
  /\ InitApp
  /\ \E c \in InterpPaths, p \in InterpProgress :
       calc = [ coordinates |-> c, progress |-> p, out |-> None ]

applyInterpolate ==
  /\ calc.out = None
  /\ calc' = [calc EXCEPT !.out = Some(interpolate(calc.coordinates, calc.progress))]
  /\ UNCHANGED appVars

InterpNext == applyInterpolate

InterpSpec == InterpInit /\ [][InterpNext]_vars

\* ---- rideBookingReducer applied to booking states, with every action type
ReducerRide ==
  [ id |-> 1, status |-> "requested", pickup |-> 0, destination |-> 4, fare |-> 5000,
    rideType |-> "economy", paymentMethod |-> Some("card-1") ]

\* a state in which no field that an action writes has its initial value
ReducerFullState ==
  [ pickupLocation |-> Some(0),
    destinationLocation |-> Some(4),
    routeDistance |-> Some(4),
    routeDuration |-> Some(8),
    routeData |-> Some([distance |-> 4, duration |-> 8]),
    availableRideTypes |-> mockRideTypeIds,
    selectedRideType |-> Some("premium"),
    priceEstimates |-> Some([economy |-> 5000]),
    priceFactors |-> initialPriceFactors,
    paymentMethods |-> mockPaymentMethods,
    selectedPaymentMethod |-> Some("card-2"),
    currentRide |-> Some(ReducerRide),
    rideHistory |-> << [ReducerRide EXCEPT !.id = 2, !.status = "cancelled"] >>,
    isLoadingRoute |-> TRUE,
    isLoadingPrices |-> TRUE,
    isRequestingRide |-> TRUE,
    error |-> Some(ErrPayment) ]

ReducerStates ==
  { initialState, loadInitialData(initialState), ReducerFullState,
    [ReducerFullState EXCEPT !.paymentMethods = << "card-1" >>, !.rideHistory = << >>] }

ReducerActionTypes ==
  { "SET_PICKUP_LOCATION", "SET_DESTINATION_LOCATION", "SET_ROUTE_DATA",
    "SET_AVAILABLE_RIDE_TYPES", "SELECT_RIDE_TYPE", "SET_PRICE_ESTIMATES",
    "SET_PAYMENT_METHODS", "SELECT_PAYMENT_METHOD", "SET_CURRENT_RIDE",
    "ADD_TO_RIDE_HISTORY", "SET_LOADING_ROUTE", "SET_LOADING_PRICES",
    "SET_REQUESTING_RIDE", "SET_ERROR", "RESET_BOOKING", "UNKNOWN" }

ReducerPayloads(type) ==
  CASE type = "SET_PICKUP_LOCATION" -> {None, Some(2)}
    [] type = "SET_DESTINATION_LOCATION" -> {None, Some(6)}
    [] type = "SET_ROUTE_DATA" ->
         { [distance |-> 6, duration |-> 12, routeData |-> None],
           [distance |-> 6, duration |-> 12,
            routeData |-> Some([distance |-> 6, duration |-> 12])] }
    [] type = "SET_AVAILABLE_RIDE_TYPES" -> { << >>, << "xl" >> }
    [] type = "SELECT_RIDE_TYPE" -> {None, Some("economy")}
    [] type = "SET_PRICE_ESTIMATES" -> { [premium |-> 9000] }
    [] type = "SET_PAYMENT_METHODS" -> { << >>, << "paypal-1" >> }
    [] type = "SELECT_PAYMENT_METHOD" -> {None, Some("card-1")}
    [] type = "SET_CURRENT_RIDE" -> {None, Some([ReducerRide EXCEPT !.id = 3])}
    [] type = "ADD_TO_RIDE_HISTORY" -> { [ReducerRide EXCEPT !.id = 3, !.status = "cancelled"] }
    [] type \in {"SET_LOADING_ROUTE", "SET_LOADING_PRICES", "SET_REQUESTING_RIDE"} -> BOOLEAN
    [] type = "SET_ERROR" -> {None, Some(ErrLocations)}
    [] OTHER -> {None}

ReducerInit ==
  /\ state = initialState
  /\ InitApp
  /\ \E st \in ReducerStates :
       calc = [ before |-> st, type |-> "none", after |-> st, steps |-> 0 ]

applyRideBookingReducer ==
  /\ calc.steps < MaxReducerSteps
  /\ \E type \in ReducerActionTypes : \E payload \in ReducerPayloads(type) :
       calc' = [ before |-> calc.after,
                 type |-> type,
                 after |-> rideBookingReducer(calc.after, type, payload),
                 steps |-> calc.steps + 1 ]
  /\ UNCHANGED appVars

ReducerNext == applyRideBookingReducer

ReducerSpec == ReducerInit /\ [][ReducerNext]_vars

\* ---- driver management: DriverContext, the mock drivers and DriverTracker
\* A driver position is a point of the line, counted in 1/LocationScale of
\* 0.05 km: updateDriverLocation moves a driver a fifth of the way to the
\* target, and with every position a multiple of 5^MaxLocationUpdates at the
\* start every fifth taken in a run is a whole number, so the arithmetic is
\* exact.  Of DriverState the fields drivers, driverRatings, isLoading and
\* error are left out: trackDriverLocation does not read or write them.
LocationScale == 5 ^ MaxLocationUpdates
\* "distance < 0.1"
DriverArrivalThreshold == 2 * LocationScale
DriverIds == {1, 2}
\* the pickupLocation and destinationLocation props of DriverTracker
DriverPickup == 0
DriverDestination == 3 * LocationScale
\* Math.random() * 0.01 - 0.005 degrees, in findNearbyDriver
NearbyOffsets == {-4 * LocationScale, LocationScale}
\* Math.random() * 0.02 - 0.01 degrees, in updateDriverLocation
UpdateOffsets == {-6 * LocationScale, -LocationScale, LocationScale}

mockDrivers ==
  [d \in DriverIds |-> [id |-> d, location |-> None, status |-> "available"]]

driverInitialState ==
  [ assignedDriver |-> None, driverLocation |-> None, driverEta |-> None,
    driverStatus |-> None ]

driverReducer(st, type, payload) ==
  CASE type = "ASSIGN_DRIVER" ->
         [st EXCEPT !.assignedDriver = payload,
                    !.driverStatus = IF IsSome(payload) THEN Some(Get(payload).status)
                                     ELSE None,
                    !.driverLocation = IF IsSome(payload) THEN Get(payload).location
                                       ELSE None]
    [] type = "UPDATE_DRIVER_LOCATION" -> [st EXCEPT !.driverLocation = payload]
    [] type = "UPDATE_DRIVER_ETA" -> [st EXCEPT !.driverEta = payload]
    [] type = "UPDATE_DRIVER_STATUS" -> [st EXCEPT !.driverStatus = payload]
    [] type = "RESET_DRIVER_STATE" -> driverInitialState
    [] OTHER -> st

\* Math.ceil((distance / 30) * 60), with 1 km = 20 * LocationScale
etaMinutes(distance) == (distance + 10 * LocationScale - 1) \div (10 * LocationScale)

\* updateDriverLocation: the mock drivers after the call (the driver returned
\* is the entry of driverId); random is the offset drawn for a driver without
\* a location, status the optional status
updateDriverLocation(drivers, driverId, target, status, random) ==
  LET driver == drivers[driverId]
      location == IF ~IsSome(driver.location) THEN target + random
                  ELSE Get(driver.location)
                         + (target - Get(driver.location)) \div 5
  IN [drivers EXCEPT ![driverId] =
        [driver EXCEPT !.location = Some(location),
                       !.status = IF IsSome(status) THEN Get(status) ELSE @]]

\* (mutant) the status after an arrival that never leaves en_route behind
newStatus_stuck(driverStatus) ==
  IF driverStatus = Some("en_route") THEN "en_route"
  ELSE IF driverStatus = Some("arriving") THEN "on_ride"
  ELSE "available"

\* the status trackDriverLocation dispatches for a driver close to the target
newStatus(driverStatus) ==
  IF driverStatus = Some("en_route") THEN "arriving"
  ELSE IF driverStatus = Some("arriving") THEN "on_ride"
  ELSE "available"

\* calc holds the reducer state, the state of the last commit (what the
\* functions of the context value close over), the targetLocation of
\* DriverTracker, the mock drivers, the findDriver calls waiting, whether a
\* dispatch of trackDriverLocation is not yet committed, and the number of
\* updateDriverLocation calls made
DriverInit ==
  /\ state = initialState
  /\ InitApp
  /\ calc = [ state |-> driverInitialState, rendered |-> driverInitialState,
              targetLocation |-> DriverPickup, mockDrivers |-> mockDrivers,
              pendingFinds |-> << >>, trackDirty |-> FALSE, updates |-> 0 ]

\* findDriver up to its await of findNearbyDriver
findDriverCall ==
  /\ calc.rendered = calc.state
  /\ ~calc.trackDirty
  /\ Len(calc.pendingFinds) < MaxPendingFinds
  /\ calc' = [calc EXCEPT !.pendingFinds = Append(@, DriverPickup)]
  /\ UNCHANGED appVars

\* findNearbyDriver returns a copy of an available mock driver, placed near
\* the pickup and en_route, or null when none matches; findDriver assigns it
findDriverResume ==
  /\ Len(calc.pendingFinds) > 0
  /\ LET pickup == Head(calc.pendingFinds)
         availableDrivers == {d \in DriverIds : calc.mockDrivers[d].status = "available"}
     IN \/ /\ calc' = [calc EXCEPT !.pendingFinds = Tail(@)]
        \/ \E d \in availableDrivers, random \in NearbyOffsets :
             LET selectedDriver == [calc.mockDrivers[d] EXCEPT
                                      !.location = Some(pickup + random),
                                      !.status = "en_route"]
                 distance == calculateDistance(pickup + random, pickup)
                 assigned == driverReducer(calc.state, "ASSIGN_DRIVER",
                                           Some(selectedDriver))
             IN calc' = [calc EXCEPT
                           !.pendingFinds = Tail(@),
                           !.state = driverReducer(assigned, "UPDATE_DRIVER_ETA",
                                                   Some(etaMinutes(distance)))]
  /\ UNCHANGED appVars

\* one call of trackDriverLocation(targetLocation), as the interval of
\* DriverTracker makes it: it reads assignedDriver and driverStatus of the
\* render that created it and dispatches into the reducer
trackDriverLocation ==
  /\ ~calc.trackDirty
  /\ calc.updates + 2 <= MaxLocationUpdates
  /\ LET closure == calc.rendered
         targetLocation == calc.targetLocation
     IN IF ~IsSome(closure.assignedDriver) THEN calc' = calc
        ELSE \E random \in UpdateOffsets :
          LET id == Get(closure.assignedDriver).id
              updated == updateDriverLocation(calc.mockDrivers, id, targetLocation,
                                              None, random)
              location == updated[id].location
              distance == calculateDistance(Get(location), targetLocation)
              located == driverReducer(
                           driverReducer(calc.state, "UPDATE_DRIVER_LOCATION", location),
                           "UPDATE_DRIVER_ETA", Some(etaMinutes(distance)))
              status == newStatus(closure.driverStatus)
          IN IF distance < DriverArrivalThreshold
               THEN calc' = [calc EXCEPT
                       !.state = driverReducer(located, "UPDATE_DRIVER_STATUS",
                                               Some(status)),
                       !.mockDrivers = updateDriverLocation(updated, id, targetLocation,
                                                            Some(status), random),
                       !.trackDirty = TRUE,
                       !.updates = @ + 2]
               ELSE calc' = [calc EXCEPT !.state = located,
                                         !.mockDrivers = updated,
                                         !.trackDirty = TRUE,
                                         !.updates = @ + 1]
  /\ UNCHANGED appVars

resetDriverState ==
  /\ calc.rendered = calc.state
  /\ ~calc.trackDirty
  /\ calc.state # driverInitialState
  /\ calc' = [calc EXCEPT !.state = driverReducer(@, "RESET_DRIVER_STATE", None)]
  /\ UNCHANGED appVars

\* one commit of the provider and of DriverTracker: the context functions
\* close over the new state, and the status effect of DriverTracker switches
\* the target to the destination once the driver is arriving
DriverRender ==
  /\ calc.rendered # calc.state \/ calc.trackDirty
  /\ calc' = [calc EXCEPT
               !.rendered = calc.state,
               !.trackDirty = FALSE,
               !.targetLocation = IF calc.state.driverStatus = Some("arriving")
                                  THEN DriverDestination ELSE @]
  /\ UNCHANGED appVars

DriverNext ==
  \/ findDriverCall
  \/ findDriverResume
  \/ trackDriverLocation
  \/ resetDriverState
  \/ DriverRender

DriverSpec == DriverInit /\ [][DriverNext]_vars

\* ------------------------------------------------------------------ claims
HasCurrent(id) == IsSome(state.currentRide) /\ Get(state.currentRide).id = id
CurrentStatus == IF IsSome(state.currentRide) THEN Get(state.currentRide).status ELSE "none"

\* C1: once the arrival-at-pickup transition has made a ride `arriving`, the
\* ride eventually becomes `in_progress` unless it stops being the current
\* ride (cancelled or replaced): the boarding timeout armed at arrival fires.
C1_BoardingCompletes ==
  \A id \in RideIds :
    (HasCurrent(id) /\ CurrentStatus = "arriving" /\ arrivalAtPickupRef)
      ~> (~HasCurrent(id) \/ CurrentStatus \in {"in_progress", "completed"})

\* C2: for any one ride id the transition to `arriving` is dispatched at most
\* once, and the transition to `completed` is dispatched at most once,
\* however many ticks occur within the threshold.
C2_ArrivalDispatchedOnce ==
  \A id \in RideIds :
    /\ trace.dispatched[id]["arriving"] <= 1
    /\ trace.dispatched[id]["completed"] <= 1

\* a tick has just run with the driver held at the pickup of a ride that is
\* already `arriving`, and a ride has been completed
C2_Witness ==
  /\ CurrentStatus = "arriving"
  /\ arrivalAtPickupRef
  /\ ~rideDirty
  /\ locDirty
  /\ driverLocation = Some(Get(state.currentRide).pickup)
  /\ trace.dispatched[Get(state.currentRide).id]["arriving"] = 1
  /\ \E id \in RideIds : trace.dispatched[id]["completed"] = 1

\* C4: once cancelRide has been invoked for the current ride, no simulated
\* transition (arriving, in_progress, completed) is dispatched for that ride.
C4_NoTransitionAfterCancelRequest ==
  [][\A id \in trace.cancelRequested :
       trace'.dispatched[id] = trace.dispatched[id]]_vars

\* C5: cancelRide for a current ride that is `completed` is rejected: the
\* call never passes the id check into its await.
C5_CompletedRideNotCancelled ==
  \A i \in 1..Len(pendingCancels) : pendingCancels[i].status # "completed"

InHistory(id, status) ==
  \E i \in 1..Len(state.rideHistory) :
    state.rideHistory[i].id = id /\ state.rideHistory[i].status = status

\* C6: a ride that has reached a terminal status is in rideHistory: once the
\* commit that follows the `completed` dispatch is done, the history holds
\* the completed ride.
C6_TerminalRideInHistory ==
  (~renderPending /\ CurrentStatus = "completed")
    => InHistory(Get(state.currentRide).id, "completed")

\* the furthest status a ride has had as the current ride
Reached(id) ==
  IF trace.dispatched[id]["completed"] > 0 THEN StatusRank("completed")
  ELSE IF trace.dispatched[id]["in_progress"] > 0 THEN StatusRank("in_progress")
  ELSE IF trace.dispatched[id]["arriving"] > 0 THEN StatusRank("arriving")
  ELSE IF id < nextRideId THEN StatusRank("requested")
  ELSE 0

\* C7: whatever step sets the current ride, the status of that ride (by id)
\* is not earlier, in requested < accepted < arriving < in_progress <
\* completed, than a status the same ride has already had.
C7_StatusOnlyForward ==
  [][IsSome(state'.currentRide)
       => StatusRank(Get(state'.currentRide).status) >= Reached(Get(state'.currentRide).id)]_vars

\* a ride has gone through arriving and in_progress and is now completed
C7_Witness ==
  /\ CurrentStatus = "completed"
  /\ trace.dispatched[Get(state.currentRide).id]["arriving"] = 1
  /\ trace.dispatched[Get(state.currentRide).id]["in_progress"] = 1
  /\ trace.dispatched[Get(state.currentRide).id]["completed"] = 1

\* C8: nothing the previous ride left behind keeps a new ride from its
\* transition: after any commit, a current ride that is still `requested`
\* does not have the driver within the threshold of its pickup (the arrival
\* effect of that commit has dispatched `arriving`).
C8_NoLeakAcrossRides ==
  ~ ( /\ ~renderPending
      /\ CurrentStatus \in {"requested", "accepted"}
      /\ IsSome(driverLocation)
      /\ calculateDistance(Get(driverLocation), Get(state.currentRide).pickup)
            < ArrivalThreshold )

\* C8 (reset part): a commit that sees another ride id leaves both flags
\* false and no boarding timeout armed.
C8_ResetOnIdChange ==
  [][(Render /\ CurrentRideId(rendered.state) # CurrentRideId(state))
       => (~arrivalAtPickupRef' /\ ~arrivalAtDestinationRef' /\ inProgressTimeoutRef' = None)]_vars

\* ---- claims about the booking context (BookingSpec)
SelectionMissing(st) ==
  \/ st.pickupLocation = None
  \/ st.destinationLocation = None
  \/ st.selectedRideType = None
  \/ st.selectedPaymentMethod = None

\* C9: requestRide with a selection missing returns null, sets a validation
\* error, leaves currentRide alone, never raises isRequestingRide and starts
\* no ride creation.
C9_RequestRejectedWhenIncomplete ==
  [][(requestRideCall /\ SelectionMissing(rendered.state))
       => /\ returned' = [op |-> "requestRide", value |-> "null"]
          /\ state'.error \in {Some(ErrLocations), Some(ErrRideType), Some(ErrPayment)}
          /\ state'.currentRide = state.currentRide
          /\ state'.isRequestingRide = state.isRequestingRide
          /\ pendingRequests' = pendingRequests
          /\ nextRideId' = nextRideId]_vars

\* requestRide has been rejected while a ride is current
C9_Witness ==
  /\ returned = [op |-> "requestRide", value |-> "null"]
  /\ state.error \in {Some(ErrLocations), Some(ErrRideType), Some(ErrPayment)}
  /\ SelectionMissing(state)
  /\ IsSome(state.currentRide)
  /\ ~state.isRequestingRide

\* C10: cancelRide with no current ride, or with another id than the current
\* ride's, returns false, sets the error "Invalid ride ID" and leaves
\* currentRide and rideHistory alone (also later: no cancellation is started).
C10_CancelRejectedOnInvalidId ==
  [][\A id \in RideIds :
       (cancelRideCall(id)
          /\ (rendered.state.currentRide = None \/ Get(rendered.state.currentRide).id # id))
       => /\ returned' = [op |-> "cancelRide", value |-> "false"]
          /\ state'.error = Some(ErrInvalidRide)
          /\ state'.currentRide = state.currentRide
          /\ state'.rideHistory = state.rideHistory
          /\ pendingCancels' = pendingCancels]_vars

\* cancelRide has been rejected for an id that is not the current ride's
C10_Witness ==
  /\ returned = [op |-> "cancelRide", value |-> "false"]
  /\ state.error = Some(ErrInvalidRide)
  /\ IsSome(state.currentRide)
  /\ pendingCancels = <<>>

\* ---- claims about cancellation and the simulator's movement (Spec)
NonTerminal == {"requested", "accepted", "arriving", "in_progress"}

\* C11: cancelRide for the id of the current ride is accepted whenever that
\* ride's status is not terminal (the call passes the id check without an
\* error), and when it completes it returns true, sets currentRide to null
\* and puts one new entry, with that ride's id and the status `cancelled`,
\* in front of the unchanged earlier rideHistory.
C11_CancelAccepted ==
  [][/\ (handleCancelRide /\ Get(rendered.state.currentRide).status \in NonTerminal)
          => /\ pendingCancels' = Append(pendingCancels, Get(rendered.state.currentRide))
             /\ state' = state
             /\ returned' = returned
     /\ cancelRideResume
          => /\ returned' = [op |-> "cancelRide", value |-> "true"]
             /\ state'.currentRide = None
             /\ Len(state'.rideHistory) = Len(state.rideHistory) + 1
             /\ Head(state'.rideHistory).id = Head(pendingCancels).id
             /\ Head(state'.rideHistory).status = "cancelled"
             /\ Tail(state'.rideHistory) = state.rideHistory]_vars

\* two rides have been cancelled, the later one after it had become
\* in_progress, the earlier one before it had arrived
C11_Witness ==
  /\ returned = [op |-> "cancelRide", value |-> "true"]
  /\ state.currentRide = None
  /\ Len(state.rideHistory) = 2
  /\ state.rideHistory[1].id # state.rideHistory[2].id
  /\ state.rideHistory[1].status = "cancelled"
  /\ trace.dispatched[state.rideHistory[1].id]["in_progress"] = 1
  /\ trace.dispatched[state.rideHistory[2].id]["arriving"] = 0

\* ---- claims about calculatePrice (PriceSpec)
\* the price before rounding, in 1/PriceDenominator thousandths: the larger
\* of (basePrice + distance * perKmRate + duration * perMinuteRate)
\* * priceMultiplier * surgePricing and minimumFare
ExactPrice(c) ==
  Max((60 * c.factors.basePrice + c.distance * c.factors.perKmRate
         + c.duration * c.factors.perMinuteRate)
        * c.rideType.priceMultiplier * c.factors.surgePricing,
      c.factors.minimumFare * PriceDenominator)

\* C13: the result of calculatePrice has two decimals and is a nearest
\* two-decimal value to max((basePrice + distance * perKmRate + duration *
\* perMinuteRate) * priceMultiplier * surgePricing, minimumFare); for 5 km,
\* 15 min, multiplier 1.3 and the initial factors it is 18.20.
C13_PriceFormula ==
  IsSome(calc.out) =>
    /\ Get(calc.out) % 10 = 0
    /\ 2 * Abs(Get(calc.out) * PriceDenominator - ExactPrice(calc))
         <= 10 * PriceDenominator
    /\ ( /\ calc.distance = 300
         /\ calc.duration = 900
         /\ calc.rideType.priceMultiplier = 13
         /\ calc.factors = initialPriceFactors )
       => Get(calc.out) = 18200

\* the scenario of 5 km and 15 min has been priced
C13_Witness ==
  /\ calc.distance = 300
  /\ calc.duration = 900
  /\ calc.rideType.priceMultiplier = 13
  /\ calc.factors = initialPriceFactors
  /\ calc.out = Some(18200)

\* C14 (as stated): for non-negative distance, duration and rates, a positive
\* multiplier and a surge factor of at least 1, the result of calculatePrice
\* is at least minimumFare and not negative.
C14_AtLeastMinimumFare ==
  IsSome(calc.out) =>
    /\ Get(calc.out) >= calc.factors.minimumFare
    /\ Get(calc.out) >= 0

\* C14 (amended): the same, for a minimumFare that is a whole number of
\* hundredths.
C14_AtLeastMinimumFareInCents ==
  (IsSome(calc.out) /\ calc.factors.minimumFare % 10 = 0) =>
    /\ Get(calc.out) >= calc.factors.minimumFare
    /\ Get(calc.out) >= 0

\* a ride too short to cost the minimum fare has been priced at the
\* minimum fare of 5.0
C14_Witness ==
  /\ calc.factors.minimumFare = 5000
  /\ (60 * calc.factors.basePrice + calc.distance * calc.factors.perKmRate
        + calc.duration * calc.factors.perMinuteRate)
       * calc.rideType.priceMultiplier * calc.factors.surgePricing
     < 5000 * PriceDenominator
  /\ calc.out = Some(5000)

\* ---- claims about the fare of a requested ride (FareSpec)
\* C12: every ride that requestRide stores as currentRide has a fare of at
\* least priceFactors.minimumFare.
C12_FareAtLeastMinimum ==
  IsSome(state.currentRide)
    => Get(state.currentRide).fare >= initialPriceFactors.minimumFare

\* ---- claims about moveTowardTarget (MoveSpec)
\* C15: a step of moveTowardTarget never increases the distance to the
\* target and never passes the target, a step taken at the target stays at
\* the target, and as soon as the steps taken cover the initial distance the
\* position is exactly the target.
C15_ReachesTargetExactly ==
  [][applyMoveTowardTarget =>
       /\ calculateDistance(calc'.current, calc.target)
            <= calculateDistance(calc.current, calc.target)
       /\ (calc.target - calc'.current) * (calc.target - calc.current) >= 0
       /\ (calc.current = calc.target) => (calc'.current = calc.target)
       /\ (calc'.steps * calc.distanceToMove
             >= calculateDistance(calc.start, calc.target))
            => (calc'.current = calc.target)]_vars

\* a position far from the target has been moved onto the target in several
\* steps and further steps have been taken there
C15_Witness ==
  /\ calculateDistance(calc.start, calc.target) >= 10
  /\ calc.distanceToMove = 2
  /\ calc.steps > 6
  /\ calc.current = calc.target

\* ---- claims about fetchRoute and createRideRequest (ApiSpec)
\* C16: fetchRoute returns route data only for a response that is ok and has
\* at least one route; with the token missing, a response that is not ok or
\* no route it throws, having fetched at most once; and createRideRequest
\* then returns no ride.
C16_RouteFailureIsFatal ==
  /\ calc.fetches <= 1
  /\ IsSome(calc.routeData) =>
       /\ Get(calc.routeData).kind = "return"
            <=> /\ calc.accessToken
                /\ ~calc.response.rejected
                /\ calc.response.ok
                /\ IsSome(calc.response.routes)
                /\ Len(Get(calc.response.routes)) >= 1
       /\ ~calc.accessToken => calc.fetches = 0
  /\ (calc.pc = "done" /\ IsSome(calc.routeData) /\ Get(calc.routeData).kind = "throw")
       => Get(calc.ride).kind = "throw"

\* createRideRequest has ended without a ride after one fetch that brought a
\* response without routes
C16_Witness ==
  /\ calc.pc = "done"
  /\ calc.fetches = 1
  /\ calc.response.ok
  /\ calc.response.routes = Some(<< >>)
  /\ Get(calc.routeData).kind = "throw"
  /\ Get(calc.ride).kind = "throw"

\* ---- claims about interpolate (InterpSpec)
\* C17: for a non-empty path interpolate returns the first coordinate for a
\* progress of 0 or less and the last coordinate for a progress of 1 or more.
C17_ClampedToEnds ==
  IsSome(calc.out) =>
    /\ calc.progress <= 0 => Get(calc.out) = calc.coordinates[1]
    /\ calc.progress >= ProgressScale
         => Get(calc.out) = calc.coordinates[Len(calc.coordinates)]

\* a path of three different points has been interpolated at a negative
\* progress
C17_Witness ==
  /\ Len(calc.coordinates) = 3
  /\ calc.coordinates[1] # calc.coordinates[2]
  /\ calc.coordinates[2] # calc.coordinates[3]
  /\ calc.progress < 0
  /\ calc.out = Some(calc.coordinates[1])

\* ---- claims about the interval of the simulator (Spec)
\* the ride and the driver position the closures of the last commit hold
RenderedStatus ==
  IF IsSome(rendered.state.currentRide)
  THEN Get(rendered.state.currentRide).status
  ELSE "none"

\* position b is nearer to target t than position a, or both are at t
Toward(a, b, t) ==
  /\ calculateDistance(b, t) <= calculateDistance(a, t)
  /\ (a # t) => calculateDistance(b, t) < calculateDistance(a, t)

\* C18: a tick moves the driver toward the pickup while the ride of the
\* interval is requested, accepted or arriving, and toward the destination
\* while it is in_progress; a commit that shows a completed ride (or none, as
\* after a cancellation) leaves no interval, and while that ride is shown
\* and still the current ride no step changes the driver position.
C18_TickFollowsStatus ==
  [][/\ Tick =>
          LET ride == Get(rendered.state.currentRide) IN
          /\ ride.status \in {"requested", "accepted", "arriving", "in_progress"}
          /\ ride.status \in {"requested", "accepted", "arriving"}
               => Toward(Get(driverLocation), Get(driverLocation'), ride.pickup)
          /\ ride.status = "in_progress"
               => Toward(Get(driverLocation), Get(driverLocation'), ride.destination)
     /\ (Render /\ (state.currentRide = None
                      \/ CurrentStatus \in {"completed", "cancelled"}))
          => ~intervalActive'
     /\ (RenderedStatus \in {"completed", "cancelled"}
           /\ state.currentRide = rendered.state.currentRide)
          => driverLocation' = driverLocation]_vars

\* a tick has moved the driver toward the destination of a ride that is
\* in_progress, and a ride has been completed before
C18_Witness ==
  /\ RenderedStatus = "in_progress"
  /\ locDirty
  /\ IsSome(rendered.driverLocation)
  /\ calculateDistance(Get(driverLocation), Get(rendered.state.currentRide).destination)
       < calculateDistance(Get(rendered.driverLocation),
                           Get(rendered.state.currentRide).destination)
  /\ \E id \in RideIds : trace.dispatched[id]["completed"] = 1

\* C19: whenever the current ride is `arriving` through the arrival
\* transition, the driver position is exactly the pickup of that ride, and a
\* tick taken for a ride that is `arriving` leaves it there.
C19_HeldAtPickup ==
  [][/\ (CurrentStatus' = "arriving"
           /\ trace'.dispatched[Get(state'.currentRide).id]["arriving"] > 0)
          => driverLocation' = Some(Get(state'.currentRide).pickup)
     /\ (Tick /\ RenderedStatus = "arriving")
          => /\ driverLocation = Some(Get(rendered.state.currentRide).pickup)
             /\ driverLocation' = driverLocation]_vars

\* C20: a step dispatches the transition to `arriving` only for a current
\* ride that is requested or accepted with the driver within the threshold of
\* its pickup, and the transition to `completed` only for a current ride that
\* is in_progress with the driver within the threshold of its destination.
C20_TransitionsGuarded ==
  [][\A id \in RideIds :
       /\ trace'.dispatched[id]["arriving"] # trace.dispatched[id]["arriving"]
            => /\ HasCurrent(id)
               /\ CurrentStatus \in {"requested", "accepted"}
               /\ IsSome(driverLocation)
               /\ calculateDistance(Get(driverLocation), Get(state.currentRide).pickup)
                    < ArrivalThreshold
               /\ state'.currentRide = Some(arrivingRide(Get(state.currentRide)))
       /\ trace'.dispatched[id]["completed"] # trace.dispatched[id]["completed"]
            => /\ HasCurrent(id)
               /\ CurrentStatus = "in_progress"
               /\ IsSome(driverLocation)
               /\ calculateDistance(Get(driverLocation), Get(state.currentRide).destination)
                    < ArrivalThreshold
               /\ state'.currentRide = Some(completedRide(Get(state.currentRide)))]_vars

\* the commit that has just dispatched `completed`, with the driver at the
\* destination of a ride that went through `arriving`
C20_Witness ==
  /\ CurrentStatus = "completed"
  /\ rideDirty
  /\ arrivalAtPickupRef
  /\ arrivalAtDestinationRef
  /\ driverLocation = Some(Get(state.currentRide).destination)
  /\ RenderedStatus = "in_progress"

\* C21: the commit that follows a tick of the current ride evaluates the
\* transitions against the position the tick has produced: if that position
\* is within the threshold of the target the transition is dispatched in that
\* commit, and a transition dispatched in that commit has that position
\* within the threshold.
C21_TransitionOnNewPosition ==
  [][(/\ Render
      /\ locDirty
      /\ IsSome(driverLocation)
      /\ IsSome(state.currentRide)
      /\ CurrentRideId(rendered.state) = CurrentRideId(state))
       => LET ride == Get(state.currentRide)
              loc == Get(driverLocation) IN
          /\ (/\ ride.status \in {"requested", "accepted"}
              /\ calculateDistance(loc, ride.pickup) < ArrivalThreshold)
               <=> /\ trace' = NoteSimulated(trace, arrivingRide(ride))
                   /\ state'.currentRide = Some(arrivingRide(ride))
          /\ (/\ ride.status = "in_progress"
              /\ calculateDistance(loc, ride.destination) < ArrivalThreshold)
               <=> /\ trace' = NoteSimulated(trace, completedRide(ride))
                   /\ state'.currentRide = Some(completedRide(ride))]_vars

\* the commit after the tick that snapped the driver onto the pickup has
\* dispatched `arriving` and armed the boarding timeout
C21_Witness ==
  /\ CurrentStatus = "arriving"
  /\ RenderedStatus = "requested"
  /\ rideDirty
  /\ ~locDirty
  /\ arrivalAtPickupRef
  /\ IsSome(inProgressTimeoutRef)
  /\ driverLocation = Some(Get(state.currentRide).pickup)

\* C22: a commit that shows no current ride leaves no interval and no
\* boarding timeout, dispatches nothing and leaves the booking state as it
\* is; and neither the interval callback nor the timeout callback runs for a
\* render without a ride.
C22_NoRideNoOp ==
  [][/\ (Render /\ state.currentRide = None)
          => /\ ~intervalActive'
             /\ inProgressTimeoutRef' = None
             /\ trace' = trace
             /\ state' = state
             /\ driverLocation' = None
     /\ (Tick \/ BoardingTimeout) => IsSome(rendered.state.currentRide)]_vars

\* the commits after a cancellation are done: no ride, no driver position,
\* no interval, no timeout
C22_Witness ==
  /\ state.currentRide = None
  /\ ~renderPending
  /\ Len(state.rideHistory) >= 1
  /\ driverLocation = None
  /\ ~intervalActive
  /\ inProgressTimeoutRef = None

\* C23: moveTowardTarget returns the target itself with remaining distance 0
\* when the remaining distance is below 0.05 km or the step is at least the
\* remaining distance; otherwise the remaining distance it returns is the
\* previous remaining distance less the step.
C23_RemainingDistance ==
  [][applyMoveTowardTarget =>
       LET distance == calculateDistance(calc.current, calc.target) IN
       IF distance < ArrivalThreshold \/ calc.distanceToMove >= distance
         THEN calc'.current = calc.target /\ calc'.distance = 0
         ELSE calc'.distance = distance - calc.distanceToMove]_vars

\* a full step has been taken and reported, and a later call has snapped
C23_Witness ==
  /\ calc.steps >= 3
  /\ calculateDistance(calc.start, calc.target) >= 7
  /\ calc.distanceToMove = 2
  /\ calc.current = calc.target
  /\ calc.distance = 0

\* C24: the commit that first shows a ride with another id than the commit
\* before leaves the driver at the initial position of that ride, its pickup
\* less the initial offset, whatever was current before.
C24_DriverStartsNearPickup ==
  [][(/\ Render
      /\ IsSome(state.currentRide)
      /\ CurrentRideId(rendered.state) # CurrentRideId(state))
       => driverLocation' = Some(Get(state.currentRide).pickup - InitialOffset)]_vars

\* the same, for a ride that starts with no ride shown before
C24_DriverStartsNearPickupFirstRide ==
  [][(/\ Render
      /\ IsSome(state.currentRide)
      /\ ~IsSome(rendered.state.currentRide)
      /\ ~IsSome(driverLocation))
       => driverLocation' = Some(Get(state.currentRide).pickup - InitialOffset)]_vars

\* ---- claims about the driver tracking (DriverSpec)
\* the step after a status along en_route, arriving, on_ride, available
OneStepAlong(driverStatus) ==
  CASE driverStatus = Some("en_route") -> Some("arriving")
    [] driverStatus = Some("arriving") -> Some("on_ride")
    [] OTHER -> Some("available")

\* the call went on to update the driver and the updated position is within
\* 0.1 km of the target
UpdatedWithinThreshold ==
  /\ IsSome(calc.rendered.assignedDriver)
  /\ IsSome(calc'.state.driverLocation)
  /\ calculateDistance(Get(calc'.state.driverLocation), calc.targetLocation)
       < DriverArrivalThreshold

\* C25: a call of trackDriverLocation whose updated driver position is
\* within 0.1 km of the target takes driverStatus one step along en_route,
\* arriving, on_ride, available (anything else to available); a call whose
\* updated position is farther, or with no driver assigned, leaves
\* driverStatus as it is.
C25_StatusAdvancesOneStep ==
  [][trackDriverLocation =>
       /\ UpdatedWithinThreshold
            => calc'.state.driverStatus = OneStepAlong(calc.state.driverStatus)
       /\ ~UpdatedWithinThreshold
            => calc'.state.driverStatus = calc.state.driverStatus
       /\ ~IsSome(calc.state.assignedDriver)
            => calc'.state.driverStatus = calc.state.driverStatus]_vars

\* the same, for a call made when every dispatch has been committed
C25_StatusAdvancesOneStepWhenCommitted ==
  [][(trackDriverLocation /\ calc.rendered = calc.state) =>
       /\ UpdatedWithinThreshold
            => calc'.state.driverStatus = OneStepAlong(calc.state.driverStatus)
       /\ ~UpdatedWithinThreshold
            => calc'.state.driverStatus = calc.state.driverStatus
       /\ ~IsSome(calc.state.assignedDriver)
            => calc'.state.driverStatus = calc.state.driverStatus]_vars

\* a driver has been tracked from en_route to available
C25_Witness ==
  /\ IsSome(calc.state.assignedDriver)
  /\ calc.state.driverStatus = Some("available")
  /\ calc.updates >= 6

\* ---- claims about the statuses of the booking flow
\* the statuses under which the booking state holds the ride with this id
StatusesOf(st, id) ==
  {st.rideHistory[i].status :
     i \in {j \in 1..Len(st.rideHistory) : st.rideHistory[j].id = id}}
  \cup (IF IsSome(st.currentRide) /\ Get(st.currentRide).id = id
        THEN {Get(st.currentRide).status} ELSE {})

\* C26: no step leaves a ride with status `accepted`; a ride that did not
\* exist before the step is `requested` after it; and a step taken while a
\* ride is current and `requested` leaves that ride `requested`, `arriving`
\* or `cancelled`.
C26_NeverAccepted ==
  [][\A id \in RideIds :
       /\ "accepted" \notin StatusesOf(state', id)
       /\ id >= nextRideId => StatusesOf(state', id) \subseteq {"requested"}
       /\ (HasCurrent(id) /\ CurrentStatus = "requested")
            => StatusesOf(state', id) \subseteq {"requested", "arriving", "cancelled"}]_vars

\* one ride has been cancelled and a later one has gone from requested to
\* arriving through the arrival transition
C26_Witness ==
  /\ CurrentStatus = "arriving"
  /\ trace.dispatched[Get(state.currentRide).id]["arriving"] > 0
  /\ \E i \in 1..Len(state.rideHistory) : state.rideHistory[i].status = "cancelled"

\* C27: rideHistory never holds two entries with the same ride id.
C27_HistoryIdsUnique ==
  \A i \in 1..Len(state.rideHistory) : \A j \in 1..Len(state.rideHistory) :
    state.rideHistory[i].id = state.rideHistory[j].id => i = j

\* C28: every ride that has been the current ride is still the current ride
\* or has an entry in rideHistory.
C28_NoRideDropped ==
  \A id \in RideIds :
    id < nextRideId => StatusesOf(state, id) # {}

\* ---- claims about rideBookingReducer (ReducerSpec)
\* the fields an action type names
NamedFields(type) ==
  CASE type = "SET_PICKUP_LOCATION" -> {"pickupLocation"}
    [] type = "SET_DESTINATION_LOCATION" -> {"destinationLocation"}
    [] type = "SET_ROUTE_DATA" -> {"routeDistance", "routeDuration", "routeData"}
    [] type = "SET_AVAILABLE_RIDE_TYPES" -> {"availableRideTypes"}
    [] type = "SELECT_RIDE_TYPE" -> {"selectedRideType"}
    [] type = "SET_PRICE_ESTIMATES" -> {"priceEstimates"}
    [] type = "SET_PAYMENT_METHODS" -> {"paymentMethods"}
    [] type = "SELECT_PAYMENT_METHOD" -> {"selectedPaymentMethod"}
    [] type = "SET_CURRENT_RIDE" -> {"currentRide"}
    [] type = "ADD_TO_RIDE_HISTORY" -> {"rideHistory"}
    [] type = "SET_LOADING_ROUTE" -> {"isLoadingRoute"}
    [] type = "SET_LOADING_PRICES" -> {"isLoadingPrices"}
    [] type = "SET_REQUESTING_RIDE" -> {"isRequestingRide"}
    [] type = "SET_ERROR" -> {"error"}
    [] OTHER -> {}

\* C29: RESET_BOOKING leaves paymentMethods and rideHistory as they were and
\* every other field at its initial value: locations, route, selections,
\* price estimates and currentRide cleared, the ride types empty, the price
\* factors the initial ones, the loading flags false, the error null.  Every
\* other action changes at most the fields it names, and rideHistory only if
\* it is ADD_TO_RIDE_HISTORY.
C29_ReducerFrame ==
  calc.type # "none" =>
    LET b == calc.before  a == calc.after IN
    /\ calc.type = "RESET_BOOKING" =>
         /\ a.paymentMethods = b.paymentMethods
         /\ a.rideHistory = b.rideHistory
         /\ a.pickupLocation = None /\ a.destinationLocation = None
         /\ a.routeDistance = None /\ a.routeDuration = None /\ a.routeData = None
         /\ a.selectedRideType = None /\ a.selectedPaymentMethod = None
         /\ a.priceEstimates = None
         /\ a.currentRide = None
         /\ a.availableRideTypes = << >>
         /\ a.priceFactors = [ basePrice |-> 2500, perKmRate |-> 1250,
                               perMinuteRate |-> 350, minimumFare |-> 5000,
                               surgePricing |-> 10 ]
         /\ ~a.isLoadingRoute /\ ~a.isLoadingPrices /\ ~a.isRequestingRide
         /\ a.error = None
    /\ calc.type # "RESET_BOOKING" =>
         /\ DOMAIN a = DOMAIN b
         /\ \A f \in DOMAIN b \ NamedFields(calc.type) : a[f] = b[f]
    /\ calc.type # "ADD_TO_RIDE_HISTORY" => a.rideHistory = b.rideHistory

\* a reset of a state in which nothing had its initial value
C29_Witness ==
  /\ calc.type = "RESET_BOOKING"
  /\ calc.before = ReducerFullState
  /\ calc.after.paymentMethods = mockPaymentMethods
  /\ Len(calc.after.rideHistory) = 1
  /\ calc.after.currentRide = None

\* ---- claims about the fare of createRideRequest (ApiSpec)
\* C30: the fare of the ride createRideRequest returns is
\* calculatePrice(distance in km, duration in minutes, ride type, default
\* price factors) of its route.
C30_FareIsCalculatePrice ==
  (calc.pc = "done" /\ Get(calc.ride).kind = "return") =>
    LET ride == Get(calc.ride).value IN
    ride.fare = calculatePrice((ride.route.distance * 60) \div 1000,
                               ride.route.duration,
                               mockRideTypes[calc.rideTypeId],
                               [ basePrice |-> 2500, perKmRate |-> 1250,
                                 perMinuteRate |-> 350, minimumFare |-> 5000,
                                 surgePricing |-> 10 ])

\* a ride has been returned for a short route with a multiplier above 1, where
\* the minimum fare decides
C30_Witness ==
  /\ calc.pc = "done"
  /\ Get(calc.ride).kind = "return"
  /\ calc.rideTypeId = "premium"
  /\ Get(calc.ride).value.route.distance = 50
  /\ Get(calc.ride).value.fare = 5000

====
